---- MODULE Spec2Model ----
(***************************************************************************)
(* The PerformanceChart component of frontend/src/App.js: its React state, *)
(* the mount / timeframe effect, the two asynchronous fetches and their    *)
(* continuations, the alignment loop and the headline statistics.  The     *)
(* chart type toggle, which only chooses between two renderings of the     *)
(* same series, is left out.                                               *)
(*                                                                         *)
(* Spec      the component's handlers, callable whenever the component is  *)
(*           mounted (the handlers themselves carry no guard).             *)
(* SpecAlign the success continuation of fetchPerformanceData applied to   *)
(*           every response payload within MaxLen.                         *)
(***************************************************************************)
EXTENDS Integers, Sequences, FiniteSets, TLC

\* ------------------------------------------------------------------ bounds
MaxRequests == 3      \* performance requests issued in one behaviour
MaxRespLen  == 1      \* length of a series in a response, under Spec
MaxLen      == 3      \* length of a series in a response, under SpecAlign

\* ------------------------------------------------------- JavaScript values
null      == [type |-> "null"]
undefined == [type |-> "undefined"]
Str(s)    == [type |-> "string", value |-> s]
Arr(s)    == [type |-> "array", items |-> s]

\* JavaScript truthiness of the values the component tests
Truthy(v) ==
    /\ v.type \notin {"null", "undefined"}
    /\ (v.type = "string" => v.value # "")

\* arr[i] with a 0-based index; a read past the end yields undefined
At(arr, i) == IF (i + 1) \in DOMAIN arr THEN arr[i + 1] ELSE undefined

Max(a, b) == IF a >= b THEN a ELSE b

\* ------------------------------------------------------------ the domain
timeframes == {"1M", "6M", "1Y", "ALL"}

\* Observations as the backend returns them; normalized_return is in
\* thousandths of a percent (5256 is 5.256%), price in whole units.
History ==
    << [type |-> "object", date |-> "2024-01-01", normalized_return |-> 5256,  price |-> 3],
       [type |-> "object", date |-> "2024-01-02", normalized_return |-> -1100, price |-> 1],
       [type |-> "object", date |-> "2024-01-03", normalized_return |-> -4,    price |-> 2] >>

Observations == { History[k] : k \in DOMAIN History }

RECURSIVE SeriesOfLen(_)
SeriesOfLen(n) ==
    IF n = 0 THEN { <<>> }
    ELSE { Append(s, o) : s \in SeriesOfLen(n - 1), o \in Observations }

SeriesUpTo(n) == UNION { SeriesOfLen(k) : k \in 0..n }

\* response.data of GET /api/performance/{timeframe}
ResponsesUpTo(n) ==
    { [crypto_data |-> c, traditional_data |-> t] : c \in SeriesUpTo(n), t \in SeriesUpTo(n) }

\* The payloads Spec delivers: each series is a prefix of History, at most
\* MaxRespLen long (empty, equal and unequal lengths all occur).
Prefixes(n) == { SubSeq(History, 1, k) : k \in 0..(IF n < Len(History) THEN n ELSE Len(History)) }

PerfResponses ==
    { [crypto_data |-> c, traditional_data |-> t] : c \in Prefixes(MaxRespLen), t \in Prefixes(MaxRespLen) }

\* response.data of GET /api/assets/info
AssetsInfoData == [type |-> "object", crypto |-> "Bitcoin", traditional |-> "60/40 Portfolio"]

ErrorMessage == "Failed to fetch performance data"

\* ------------------------------------------------------------- the state
VARIABLES
    performanceData,   \* useState(null): null or Arr(combined points)
    activeTimeframe,   \* useState('1Y')
    loading,           \* useState(true)
    error,             \* useState(null): null or Str(message)
    assetsInfo,        \* useState(null)
    mounted,           \* the mount effect has run
    requests,          \* performance requests in issue order: timeframe and status
    infoPending,       \* asset-info requests not yet resolved
    response,          \* SpecAlign: response.data on the wire for request 1 (null under Spec)
    dataFrom,          \* index in requests of the response performanceData was built from
    lastOp             \* the event handled last; "response" for every continuation

vars == << performanceData, activeTimeframe, loading, error, assetsInfo,
           mounted, requests, infoPending, response, dataFrom, lastOp >>

\* ------------------------------------------------------ the alignment loop
\* variant: the date is read from the traditional entry
CombinedPoint_traditionalDate(cryptoPoint, traditionalPoint) ==
    [ date             |-> traditionalPoint.date,
      crypto           |-> cryptoPoint.normalized_return,
      traditional      |-> traditionalPoint.normalized_return,
      cryptoPrice      |-> cryptoPoint.price,
      traditionalPrice |-> traditionalPoint.price ]

CombinedPoint(cryptoPoint, traditionalPoint) ==
    [ date             |-> cryptoPoint.date,
      crypto           |-> cryptoPoint.normalized_return,
      traditional      |-> traditionalPoint.normalized_return,
      cryptoPrice      |-> cryptoPoint.price,
      traditionalPrice |-> traditionalPoint.price ]

\* variant: a position is kept when either series has an entry there, the
\* missing side filled from the other series' entry
RECURSIVE AlignLoop_padded(_, _, _, _, _)
AlignLoop_padded(i, maxLength, crypto_data, traditional_data, combinedData) ==
    IF ~(i < maxLength) THEN combinedData
    ELSE LET cryptoPoint      == At(crypto_data, i)
             traditionalPoint == At(traditional_data, i)
             present          == IF Truthy(cryptoPoint) THEN cryptoPoint ELSE traditionalPoint
         IN  AlignLoop_padded(i + 1, maxLength, crypto_data, traditional_data,
                 IF Truthy(cryptoPoint) \/ Truthy(traditionalPoint)
                 THEN Append(combinedData,
                          CombinedPoint(IF Truthy(cryptoPoint) THEN cryptoPoint ELSE present,
                                        IF Truthy(traditionalPoint) THEN traditionalPoint ELSE present))
                 ELSE combinedData)

RECURSIVE AlignLoop(_, _, _, _, _)
AlignLoop(i, maxLength, crypto_data, traditional_data, combinedData) ==
    IF ~(i < maxLength) THEN combinedData
    ELSE LET cryptoPoint      == At(crypto_data, i)
             traditionalPoint == At(traditional_data, i)
         IN  AlignLoop(i + 1, maxLength, crypto_data, traditional_data,
                 IF Truthy(cryptoPoint) /\ Truthy(traditionalPoint)
                 THEN Append(combinedData, CombinedPoint(cryptoPoint, traditionalPoint))
                 ELSE combinedData)

\* variant: the loop starts at index 1
align_fromOne(crypto_data, traditional_data) ==
    AlignLoop(1, Max(Len(crypto_data), Len(traditional_data)),
              crypto_data, traditional_data, <<>>)

align(crypto_data, traditional_data) ==
    AlignLoop(0, Max(Len(crypto_data), Len(traditional_data)),
              crypto_data, traditional_data, <<>>)

\* ------------------------------------------------------------- the view
\* which of the three returns of the render function is taken
Status ==
    IF loading THEN "Loading"
    ELSE IF Truthy(error) THEN "Error"
    ELSE "Ready"

\* Number.prototype.toFixed(2) of x thousandths: the sign and the magnitude
\* rounded to hundredths, half up
toFixed2(x) ==
    LET mag == IF x < 0 THEN -x ELSE x
    IN  [negative |-> x < 0, hundredths |-> (mag + 5) \div 10]

\* {value > 0 ? '+' : ''}{value.toFixed(2)}%
FormatReturn(x) == [plus |-> x > 0, fixed |-> toFixed2(x)]

NoStats == [shown |-> FALSE]

\* variant: the figures are read from the first point
PerformanceStats_first(data) ==
    IF Truthy(data) /\ Len(data.items) > 0
    THEN [ shown             |-> TRUE,
           cryptoReturn      |-> FormatReturn(At(data.items, 0).crypto),
           traditionalReturn |-> FormatReturn(At(data.items, 0).traditional) ]
    ELSE NoStats

\* the Performance Stats block
PerformanceStats(data) ==
    IF Truthy(data) /\ Len(data.items) > 0
    THEN [ shown             |-> TRUE,
           cryptoReturn      |-> FormatReturn(At(data.items, Len(data.items) - 1).crypto),
           traditionalReturn |-> FormatReturn(At(data.items, Len(data.items) - 1).traditional) ]
    ELSE NoStats

\* -------------------------------------------------------------- handlers
\* variant: the default timeframe is ALL
Init_defaultAll ==
    /\ performanceData = null
    /\ activeTimeframe = "ALL"
    /\ loading = TRUE
    /\ error = null
    /\ assetsInfo = null
    /\ mounted = FALSE
    /\ requests = <<>>
    /\ infoPending = 0
    /\ response = null
    /\ dataFrom = 0
    /\ lastOp = "init"

Init ==
    /\ performanceData = null
    /\ activeTimeframe = "1Y"
    /\ loading = TRUE
    /\ error = null
    /\ assetsInfo = null
    /\ mounted = FALSE
    /\ requests = <<>>
    /\ infoPending = 0
    /\ response = null
    /\ dataFrom = 0
    /\ lastOp = "init"

\* fetchAssetsInfo up to its await
fetchAssetsInfo == infoPending' = infoPending + 1

\* variant: the loading flag is not raised
fetchPerformanceData_noLoading(timeframe) ==
    /\ loading' = loading
    /\ error' = null
    /\ requests' = Append(requests, [timeframe |-> timeframe, status |-> "pending"])

\* variant: the previous error is not cleared
fetchPerformanceData_keepError(timeframe) ==
    /\ loading' = TRUE
    /\ error' = error
    /\ requests' = Append(requests, [timeframe |-> timeframe, status |-> "pending"])

\* fetchPerformanceData(timeframe) up to its await
fetchPerformanceData(timeframe) ==
    /\ loading' = TRUE
    /\ error' = null
    /\ requests' = Append(requests, [timeframe |-> timeframe, status |-> "pending"])

\* the body of the effect on [activeTimeframe]
useEffect(timeframe) ==
    /\ fetchAssetsInfo
    /\ fetchPerformanceData(timeframe)

\* first commit: the effect runs with the initial activeTimeframe
Mount ==
    /\ ~mounted
    /\ mounted' = TRUE
    /\ useEffect(activeTimeframe)
    /\ lastOp' = "mount"
    /\ UNCHANGED << performanceData, activeTimeframe, assetsInfo, response, dataFrom >>

\* onClick of a timeframe button: setActiveTimeframe(tf); the effect runs
\* only when the value of activeTimeframe changes
selectTimeframe(tf) ==
    /\ mounted
    /\ activeTimeframe' = tf
    /\ lastOp' = "selectTimeframe"
    /\ IF tf # activeTimeframe
       THEN /\ Len(requests) < MaxRequests
            /\ useEffect(tf)
       ELSE UNCHANGED << loading, error, requests, infoPending >>
    /\ UNCHANGED << performanceData, assetsInfo, mounted, response, dataFrom >>

\* variant: the retry asks for the default timeframe
retry_default ==
    /\ mounted
    /\ Len(requests) < MaxRequests
    /\ fetchPerformanceData("1Y")
    /\ lastOp' = "retry"
    /\ UNCHANGED << performanceData, activeTimeframe, assetsInfo, mounted,
                    infoPending, response, dataFrom >>

\* onClick of the Retry button
retry ==
    /\ mounted
    /\ Len(requests) < MaxRequests
    /\ fetchPerformanceData(activeTimeframe)
    /\ lastOp' = "retry"
    /\ UNCHANGED << performanceData, activeTimeframe, assetsInfo, mounted,
                    infoPending, response, dataFrom >>

\* variant: an empty combined series is reported as a failure
PerformanceResolved_emptyIsError(i, data) ==
    /\ i \in DOMAIN requests
    /\ requests[i].status = "pending"
    /\ performanceData' = Arr(align(data.crypto_data, data.traditional_data))
    /\ error' = IF align(data.crypto_data, data.traditional_data) = <<>>
                THEN Str(ErrorMessage) ELSE error
    /\ loading' = FALSE
    /\ requests' = [requests EXCEPT ![i].status = "ok"]
    /\ dataFrom' = i
    /\ lastOp' = "response"
    /\ UNCHANGED << activeTimeframe, assetsInfo, mounted, infoPending, response >>

\* the performance request i resolves: the rest of the try block, then finally
PerformanceResolved(i, data) ==
    /\ i \in DOMAIN requests
    /\ requests[i].status = "pending"
    /\ performanceData' = Arr(align(data.crypto_data, data.traditional_data))
    /\ loading' = FALSE
    /\ requests' = [requests EXCEPT ![i].status = "ok"]
    /\ dataFrom' = i
    /\ lastOp' = "response"
    /\ UNCHANGED << activeTimeframe, error, assetsInfo, mounted, infoPending, response >>

\* variant: the loading flag is cleared in the try block only
PerformanceFailed_noFinally(i) ==
    /\ i \in DOMAIN requests
    /\ requests[i].status = "pending"
    /\ error' = Str(ErrorMessage)
    /\ requests' = [requests EXCEPT ![i].status = "failed"]
    /\ lastOp' = "response"
    /\ UNCHANGED << performanceData, activeTimeframe, loading, assetsInfo, mounted,
                    infoPending, response, dataFrom >>

\* variant: the catch block drops the stored series
PerformanceFailed_clearsData(i) ==
    /\ i \in DOMAIN requests
    /\ requests[i].status = "pending"
    /\ error' = Str(ErrorMessage)
    /\ loading' = FALSE
    /\ performanceData' = null
    /\ dataFrom' = 0
    /\ requests' = [requests EXCEPT ![i].status = "failed"]
    /\ lastOp' = "response"
    /\ UNCHANGED << activeTimeframe, assetsInfo, mounted, infoPending, response >>

\* the performance request i rejects: the catch block, then finally
PerformanceFailed(i) ==
    /\ i \in DOMAIN requests
    /\ requests[i].status = "pending"
    /\ error' = Str(ErrorMessage)
    /\ loading' = FALSE
    /\ requests' = [requests EXCEPT ![i].status = "failed"]
    /\ lastOp' = "response"
    /\ UNCHANGED << performanceData, activeTimeframe, assetsInfo, mounted,
                    infoPending, response, dataFrom >>

\* an asset-info request resolves
AssetsInfoResolved ==
    /\ infoPending > 0
    /\ infoPending' = infoPending - 1
    /\ assetsInfo' = AssetsInfoData
    /\ lastOp' = "response"
    /\ UNCHANGED << performanceData, activeTimeframe, loading, error, mounted,
                    requests, response, dataFrom >>

\* variant: the catch block reports the failure through error
AssetsInfoFailed_setsError ==
    /\ infoPending > 0
    /\ infoPending' = infoPending - 1
    /\ error' = Str("Failed to fetch assets info")
    /\ lastOp' = "response"
    /\ UNCHANGED << performanceData, activeTimeframe, loading, assetsInfo,
                    mounted, requests, response, dataFrom >>

\* an asset-info request rejects: the catch block only logs
AssetsInfoFailed ==
    /\ infoPending > 0
    /\ infoPending' = infoPending - 1
    /\ lastOp' = "response"
    /\ UNCHANGED << performanceData, activeTimeframe, loading, error, assetsInfo,
                    mounted, requests, response, dataFrom >>

Next ==
    \/ Mount
    \/ \E tf \in timeframes : selectTimeframe(tf)
    \/ retry
    \/ \E i \in 1..MaxRequests, data \in PerfResponses : PerformanceResolved(i, data)
    \/ \E i \in 1..MaxRequests : PerformanceFailed(i)
    \/ AssetsInfoResolved
    \/ AssetsInfoFailed

Spec == Init /\ [][Next]_vars

\* ------------------------------------------------ the alignment on its own
\* The component is mounted, the 1Y request is in flight and its response
\* payload, any one within MaxLen, is on the wire.
InitAlign ==
    /\ performanceData = null
    /\ activeTimeframe = "1Y"
    /\ loading = TRUE
    /\ error = null
    /\ assetsInfo = null
    /\ mounted = TRUE
    /\ requests = << [timeframe |-> "1Y", status |-> "pending"] >>
    /\ infoPending = 1
    /\ response \in ResponsesUpTo(MaxLen)
    /\ dataFrom = 0
    /\ lastOp = "mount"

NextAlign == PerformanceResolved(1, response)

SpecAlign == InitAlign /\ [][NextAlign]_vars

TypeOK ==
    /\ activeTimeframe \in timeframes
    /\ loading \in BOOLEAN
    /\ mounted \in BOOLEAN
    /\ Len(requests) <= MaxRequests
    /\ infoPending \in 0..MaxRequests
    /\ dataFrom \in 0..Len(requests)

\* --------------------------------------------------------------- helpers
Min(a, b) == IF a <= b THEN a ELSE b

\* the step in which performance request i resolves successfully / rejects
Succeeds(i) == requests[i].status = "pending" /\ requests'[i].status = "ok"
Fails(i)    == requests[i].status = "pending" /\ requests'[i].status = "failed"

\* the request issued by the step, when the step issued one
Issued == requests'[Len(requests')]
IssuedOne == Len(requests') = Len(requests) + 1

\* SpecAlign: the response on the wire has been delivered
Delivered == Len(requests) = 1 /\ requests[1].status = "ok" /\ response # null

\* ---------------------------------------------------------------- claims

C3_LengthIsMin ==
    Delivered =>
        /\ performanceData.type = "array"
        /\ Len(performanceData.items) =
               Min(Len(response.crypto_data), Len(response.traditional_data))

C3_Witness ==
    /\ Delivered
    /\ Len(response.crypto_data) = 3
    /\ Len(response.traditional_data) = 2
    /\ Len(performanceData.items) = 2

\* C4: point i of the combined series takes its date, crypto return and
\* cryptoPrice from a[i] and its traditional return and traditionalPrice
\* from b[i], in input order.
C4_PositionalJoin ==
    Delivered =>
        \A i \in DOMAIN performanceData.items :
            /\ i \in DOMAIN response.crypto_data
            /\ i \in DOMAIN response.traditional_data
            /\ performanceData.items[i].date = response.crypto_data[i].date
            /\ performanceData.items[i].crypto = response.crypto_data[i].normalized_return
            /\ performanceData.items[i].cryptoPrice = response.crypto_data[i].price
            /\ performanceData.items[i].traditional = response.traditional_data[i].normalized_return
            /\ performanceData.items[i].traditionalPrice = response.traditional_data[i].price

C4_Witness ==
    /\ Delivered
    /\ Len(performanceData.items) = 2
    /\ response.crypto_data[2].date # response.traditional_data[2].date
    /\ response.crypto_data[1].date # response.crypto_data[2].date
    /\ performanceData.items[2].date = response.crypto_data[2].date

\* C5: if either input series is empty the combined series is empty.
C5_EmptyInput ==
    (Delivered /\ (response.crypto_data = <<>> \/ response.traditional_data = <<>>))
    => performanceData = Arr(<<>>)

C5_Witness ==
    /\ Delivered
    /\ response.crypto_data = <<>>
    /\ Len(response.traditional_data) = 3
    /\ performanceData = Arr(<<>>)

\* C6: the headline figures are the crypto and traditional fields of the last
\* point of the stored series, formatted; with no series or an empty one the
\* stats block is not shown.
C6_StatsFromLast ==
    PerformanceStats(performanceData) =
        IF performanceData.type = "null" THEN NoStats
        ELSE IF performanceData.items = <<>> THEN NoStats
        ELSE LET last == performanceData.items[Len(performanceData.items)]
             IN  [ shown             |-> TRUE,
                   cryptoReturn      |-> FormatReturn(last.crypto),
                   traditionalReturn |-> FormatReturn(last.traditional) ]

C6_Witness ==
    /\ Delivered
    /\ Len(performanceData.items) = 3
    /\ performanceData.items[3].crypto # performanceData.items[1].crypto
    /\ performanceData.items[3].traditional # performanceData.items[1].traditional
    /\ performanceData.items[3].traditional # performanceData.items[2].traditional
    /\ PerformanceStats(performanceData).shown

\* C7: a failing performance request leaves the view in Error with a
\* non-empty message; retry() issues a new request for the selected
\* timeframe and leaves the selection unchanged.
C7_FailureThenRetry ==
    [][ /\ \A i \in DOMAIN requests :
               Fails(i) => /\ Status' = "Error"
                           /\ error'.type = "string"
                           /\ error'.value # ""
        /\ lastOp' = "retry" =>
               /\ activeTimeframe' = activeTimeframe
               /\ IssuedOne
               /\ Issued = [timeframe |-> activeTimeframe, status |-> "pending"] ]_vars

C7_Witness ==
    /\ lastOp = "retry"
    /\ Len(requests) = 3
    /\ requests[2] = [timeframe |-> "ALL", status |-> "failed"]
    /\ requests[3] = [timeframe |-> "ALL", status |-> "pending"]
    /\ activeTimeframe = "ALL"

\* C8 as stated: selectTimeframe(tf), for every tf and from any state, sets
\* the status to Loading, clears the error and issues a request for tf.
C8_SelectAlwaysFetches ==
    [][ lastOp' = "selectTimeframe" =>
            /\ Status' = "Loading"
            /\ error' = null
            /\ IssuedOne
            /\ Issued = [timeframe |-> activeTimeframe', status |-> "pending"] ]_vars

\* C8 amended: selectTimeframe(tf) for a tf other than the selected one sets
\* the status to Loading, clears the error and issues a request for tf;
\* selecting the selected timeframe again issues nothing and changes nothing.
C8_SelectChangeFetches ==
    [][ lastOp' = "selectTimeframe" =>
            IF activeTimeframe' # activeTimeframe
            THEN /\ Status' = "Loading"
                 /\ error' = null
                 /\ IssuedOne
                 /\ Issued = [timeframe |-> activeTimeframe', status |-> "pending"]
            ELSE UNCHANGED << loading, error, requests, performanceData, infoPending >> ]_vars

C8_Witness ==
    /\ lastOp = "selectTimeframe"
    /\ Len(requests) = 2
    /\ requests[1].status = "failed"
    /\ requests[2] = [timeframe |-> "6M", status |-> "pending"]
    /\ activeTimeframe = "6M"
    /\ Status = "Loading"
    /\ error = null

\* C9: on startup the selected timeframe is 1Y, the status is Loading until a
\* response arrives, and the mount alone has issued exactly one performance
\* request, for 1Y.
C9_Startup ==
    /\ ~mounted => (requests = <<>> /\ lastOp = "init")
    /\ lastOp \in {"init", "mount"} => (activeTimeframe = "1Y" /\ Status = "Loading")
    /\ lastOp = "mount" => requests = << [timeframe |-> "1Y", status |-> "pending"] >>
    /\ (\A i \in DOMAIN requests : requests[i].status = "pending") => Status = "Loading"

C9_Witness ==
    /\ lastOp = "mount"
    /\ mounted
    /\ Len(requests) = 1
    /\ infoPending = 1

\* C10: a successful response that aligns to an empty series is not an
\* error: it stores the empty series, sets no error message, and with no
\* error message present the status becomes Ready.
C10_EmptyIsNotError ==
    [][ \A i \in DOMAIN requests :
            (Succeeds(i) /\ dataFrom' = i /\ performanceData' = Arr(<<>>))
            => /\ error' = error
               /\ ~loading'
               /\ (error = null => Status' = "Ready") ]_vars

C10_Witness ==
    /\ dataFrom \in DOMAIN requests
    /\ requests[dataFrom].status = "ok"
    /\ lastOp = "response"
    /\ performanceData = Arr(<<>>)
    /\ error = null
    /\ Status = "Ready"

\* ------------------------------------------------ the handlers behind the view
\* The render function returns the spinner while loading and the error
\* screen while error is set; the timeframe buttons exist only in the third
\* return, the Retry button only in the error screen.
TimeframeButtonsShown == ~loading /\ ~Truthy(error)

RetryButtonShown == ~loading /\ Truthy(error)

clickTimeframe(tf) == TimeframeButtonsShown /\ selectTimeframe(tf)

clickRetry == RetryButtonShown /\ retry

NextView ==
    \/ Mount
    \/ \E tf \in timeframes : clickTimeframe(tf)
    \/ clickRetry
    \/ \E i \in 1..MaxRequests, data \in PerfResponses : PerformanceResolved(i, data)
    \/ \E i \in 1..MaxRequests : PerformanceFailed(i)
    \/ AssetsInfoResolved
    \/ AssetsInfoFailed

\* the component driven through the rendered buttons only
SpecView == Init /\ [][NextView]_vars

\* ------------------------------------------------------------- scheduling
\* some pending performance request settles
PerformanceSettles ==
    \E i \in 1..MaxRequests :
        \/ PerformanceFailed(i)
        \/ \E data \in PerfResponses : PerformanceResolved(i, data)

\* React runs the mount effect after the first commit, and a pending request
\* settles; at most MaxRequests requests are issued.
SpecLive ==
    /\ Init
    /\ [][Next]_vars
    /\ WF_vars(Mount)
    /\ WF_vars(PerformanceSettles)

\* --------------------------------------------------------------- helpers
Pending == { i \in DOMAIN requests : requests[i].status = "pending" }

\* the step in which an asset-info request settles
InfoSettles == infoPending' = infoPending - 1

\* ---------------------------------------------------------------- claims

C13_LeavesLoading ==
    <>[](~loading /\ Status \in {"Ready", "Error"})

C13_Witness ==
    /\ Len(requests) = 3
    /\ Pending = {}
    /\ requests[2].status = "failed"
    /\ requests[3].status = "ok"
    /\ ~loading

\* C14: through the rendered buttons at most one performance request is in
\* flight, and while one is in flight neither the timeframe buttons nor the
\* Retry button are offered.
C14_NoOverlapThroughView ==
    /\ Cardinality(Pending) <= 1
    /\ Pending # {} => (loading /\ ~TimeframeButtonsShown /\ ~RetryButtonShown)

C14_Witness ==
    /\ Len(requests) = 3
    /\ requests[1].status = "ok"
    /\ requests[2].status = "failed"
    /\ Pending = {3}
    /\ requests[3].timeframe = "6M"
    /\ lastOp = "retry"

C16_FailureRetainsData ==
    [][ \A i \in DOMAIN requests :
            Fails(i) => UNCHANGED << performanceData, activeTimeframe, assetsInfo, dataFrom >> ]_vars

C16_Witness ==
    /\ lastOp = "response"
    /\ Len(requests) = 2
    /\ requests[1].status = "ok"
    /\ requests[2] = [timeframe |-> "1M", status |-> "failed"]
    /\ performanceData # null
    /\ Len(performanceData.items) = 1
    /\ activeTimeframe = "1M"
    /\ Status = "Error"

\* C17: neither the success nor the failure of the asset-info fetch changes
\* the loading flag, the error message, the selected timeframe or the stored
\* series.
C17_AssetsInfoIsolated ==
    [][ InfoSettles => UNCHANGED << loading, error, activeTimeframe, performanceData >> ]_vars

C17_Witness ==
    /\ lastOp = "response"
    /\ infoPending = 0
    /\ assetsInfo # null
    /\ Pending = {1}
    /\ loading
    /\ performanceData = null
====
